---- MODULE Spec2Model ----
(***************************************************************************)
(* Model of the Simple Notes application (notes_frontend/src/App.js):      *)
(* the note collection held by the App component, the debounced save to   *)
(* localStorage, the sidebar's sort/filter pipeline and the defensive     *)
(* loader.                                                                 *)
(*                                                                         *)
(* Strings are sequences of one-character strings, timestamps are         *)
(* instants in ms, an ISO-8601 text is the tagged instant it denotes, and  *)
(* the text of the durable slot is a sequence of JSON tokens.              *)
(***************************************************************************)
EXTENDS Integers, Sequences, FiniteSets, TLC

VARIABLES
    notes,          \* App state `notes`: the Collection
    activeId,       \* App state `activeId`: id of the active note, or Null
    search,         \* App state `search`: the raw text of the filter input
    slot,           \* localStorage entry STORAGE_KEY
    medium,         \* whether localStorage.setItem currently succeeds or throws
    timers,         \* timeouts set with setTimeout and neither fired nor cleared
    timeoutRef,     \* timeoutRef.current of useDebouncedCallback
    mounted,        \* the App component is mounted
    now,            \* Date.now(), in ms
    burstSaves,     \* saveNotes calls made by timeouts since debouncedSave last ran
    lastSaveArg,    \* <<argument>> of the last saveNotes call a timeout made since then
    shown,          \* the list the Sidebar shows, empty while it is not rendered
    route,          \* App state `route`: the location hash last seen
    hash,           \* window.location.hash
    hashEvents,     \* hashchange events queued and not yet dispatched
    loaded,         \* the last loadNotes() call: the slot it read and its outcome
    edits,          \* number of setNotes calls made so far
    raised,         \* an exception has escaped from a saveNotes call to its caller
    preview         \* NoteEditor: state `preview` and the innerHTML of the content preview

vars == <<notes, activeId, search, slot, medium, timers, timeoutRef, mounted,
          now, burstSaves, lastSaveArg, shown, loaded, edits, raised, preview,
          route, hash, hashEvents>>

-----------------------------------------------------------------------------
(* Bounds of the model *)

MaxEdits == 2       \* setNotes is called at most this many times in a run
TickMs == 150       \* granularity of the clock
MaxTime == 600      \* the clock stops here
MaxRand == 1        \* Math.random() suffixes are 0..MaxRand
MaxSeeded == 3      \* a persisted collection holds at most this many notes
MaxText == 5        \* a slot text written by something else has at most this many tokens
MaxHashEvents == 2  \* at most this many hashchange events are queued at a time
MaxRender == 5      \* a rendered content has at most this many characters

(* Program constants *)

Delay == 300        \* quiet period passed to useDebouncedCallback

Null == <<>>        \* JavaScript null (ids are non-empty tuples)

-----------------------------------------------------------------------------
(* Strings *)

Lower(c) == IF c = "F" THEN "f" ELSE IF c = "O" THEN "o" ELSE c

\* String.prototype.toLowerCase
toLowerCase(s) == [i \in 1..Len(s) |-> Lower(s[i])]

\* String.prototype.trim
trim(s) ==
    LET nonblank == {i \in 1..Len(s) : s[i] # " "}
    IN  IF nonblank = {} THEN <<>>
        ELSE LET lo == CHOOSE i \in nonblank : \A j \in nonblank : i <= j
                 hi == CHOOSE i \in nonblank : \A j \in nonblank : i >= j
             IN  SubSeq(s, lo, hi)

\* String.prototype.includes
includes(s, q) ==
    \E i \in 1..(Len(s) - Len(q) + 1) : SubSeq(s, i, i + Len(q) - 1) = q

-----------------------------------------------------------------------------
(* Markdown renderer: renderBasicMarkdown *)

RECURSIVE replaceChar(_, _, _)
\* s.replace(/c/g, r) for a one-character pattern c
replaceChar(s, c, r) ==
    IF s = <<>> THEN <<>>
    ELSE (IF Head(s) = c THEN r ELSE <<Head(s)>>) \o replaceChar(Tail(s), c, r)

\* the character U+0060, which a string of this language cannot hold
Backquote == "backquote"

AmpEntity == <<"&", "a", "m", "p", ";">>
LtEntity == <<"&", "l", "t", ";">>
GtEntity == <<"&", "g", "t", ";">>

\* esc with the three replacements left out
esc_Nothing(s) == s

\* esc: & first, then <, then >
esc(s) ==
    replaceChar(replaceChar(replaceChar(s, "&", AmpEntity), "<", LtEntity),
                ">", GtEntity)

RECURSIVE split(_)
\* text.split(/\n/)
split(s) ==
    LET breaks == {i \in 1..Len(s) : s[i] = "\n"}
    IN  IF breaks = {} THEN <<s>>
        ELSE LET k == CHOOSE i \in breaks : \A j \in breaks : i <= j
             IN  <<SubSeq(s, 1, k - 1)>> \o split(SubSeq(s, k + 1, Len(s)))

RECURSIVE join(_)
\* htmlLines.join('\n')
join(ls) ==
    IF Len(ls) = 0 THEN <<>>
    ELSE IF Len(ls) = 1 THEN ls[1]
    ELSE ls[1] \o <<"\n">> \o join(Tail(ls))

\* length of the match of /^#{k}\s+/ at the start of line, 0 when none
headingMatch(line, k) ==
    IF /\ Len(line) > k
       /\ \A i \in 1..k : line[i] = "#"
       /\ line[k + 1] = " "
      THEN CHOOSE n \in (k + 1)..Len(line) :
              /\ \A i \in (k + 1)..n : line[i] = " "
              /\ (n < Len(line) => line[n + 1] # " ")
      ELSE 0

\* line.replace(/^#{k}\s+/, '')
stripHeading(line, k) == SubSeq(line, headingMatch(line, k) + 1, Len(line))

RECURSIVE replaceWrapped(_, _, _, _)
\* s.replace(/d(.+?)d/g, open + '$1' + close) for a literal delimiter d: the
\* leftmost d that has another d at least one character after it opens a
\* match, which the nearest such d closes; the scan resumes after the match
replaceWrapped(s, d, open, close) ==
    LET n == Len(d)
        at(i) == i + n - 1 <= Len(s) /\ SubSeq(s, i, i + n - 1) = d
        closers(i) == {j \in (i + n + 1)..Len(s) : at(j)}
        starts == {i \in 1..Len(s) : at(i) /\ closers(i) # {}}
    IN  IF starts = {} THEN s
        ELSE LET i == CHOOSE x \in starts : \A y \in starts : x <= y
                 j == CHOOSE x \in closers(i) : \A y \in closers(i) : x <= y
             IN  SubSeq(s, 1, i - 1) \o open \o SubSeq(s, i + n, j - 1) \o close
                 \o replaceWrapped(SubSeq(s, j + n, Len(s)), d, open, close)

H1Open == <<"<", "h", "1", ">">>
H1Close == <<"<", "/", "h", "1", ">">>
H2Open == <<"<", "h", "2", ">">>
H2Close == <<"<", "/", "h", "2", ">">>
H3Open == <<"<", "h", "3", ">">>
H3Close == <<"<", "/", "h", "3", ">">>
BrTag == <<"<", "b", "r", "/", ">">>
POpen == <<"<", "p", ">">>
PClose == <<"<", "/", "p", ">">>
StrongOpen == <<"<", "s", "t", "r", "o", "n", "g", ">">>
StrongClose == <<"<", "/", "s", "t", "r", "o", "n", "g", ">">>
EmOpen == <<"<", "e", "m", ">">>
EmClose == <<"<", "/", "e", "m", ">">>
CodeOpen == <<"<", "c", "o", "d", "e", ">">>
CodeClose == <<"<", "/", "c", "o", "d", "e", ">">>

\* the callback of lines.map
renderLine(line) ==
    LET l == esc(line)
    IN  IF headingMatch(line, 3) > 0
          THEN H3Open \o esc(stripHeading(line, 3)) \o H3Close
        ELSE IF headingMatch(line, 2) > 0
          THEN H2Open \o esc(stripHeading(line, 2)) \o H2Close
        ELSE IF headingMatch(line, 1) > 0
          THEN H1Open \o esc(stripHeading(line, 1)) \o H1Close
        ELSE IF Len(trim(l)) = 0
          THEN BrTag
        ELSE POpen
             \o replaceWrapped(
                    replaceWrapped(
                        replaceWrapped(l, <<"*", "*">>, StrongOpen, StrongClose),
                        <<"*">>, EmOpen, EmClose),
                    <<Backquote>>, CodeOpen, CodeClose)
             \o PClose

\* renderBasicMarkdown(text)
renderBasicMarkdown(text) ==
    LET lines == split(text)
    IN  join([i \in 1..Len(lines) |-> renderLine(lines[i])])

-----------------------------------------------------------------------------
(* Identifier generator *)

\* `${Date.now().toString(36)}-${Math.random().toString(36).slice(2, 8)}`
uid(t, r) == <<t, r>>

Rand == 0..MaxRand

-----------------------------------------------------------------------------
(* JSON text of the durable slot, as tokens *)

LB == [t |-> "["]
RB == [t |-> "]"]
COMMA == [t |-> ","]
NullTok == [t |-> "null"]
TrueTok == [t |-> "true"]
FalseTok == [t |-> "false"]
Quote == "\""
Backslash == "\\"

\* the text of a JSON string, between its quotes, as its characters
StringTok(s) == [t |-> "string", v |-> s]

\* the text of a JSON string made of characters JSON writes as they are:
\* the digits, letters and punctuation of an id and of an ISO-8601 time
PlainTok(s) == [t |-> "plain", v |-> s]

RECURSIVE escape(_)
\* JSON.stringify of the characters of a string: the quote and the backslash
\* get a backslash in front, the line break is written \n
escape(s) ==
    IF s = <<>> THEN <<>>
    ELSE (IF s[1] = Quote THEN <<Backslash, Quote>>
          ELSE IF s[1] = Backslash THEN <<Backslash, Backslash>>
          ELSE IF s[1] = "\n" THEN <<Backslash, "n">>
          ELSE <<s[1]>>) \o escape(Tail(s))

RECURSIVE unescape(_)
\* JSON.parse of the text of a string: a backslash stands with the character
\* after it for one character
unescape(s) ==
    IF s = <<>> THEN <<>>
    ELSE IF s[1] = Backslash /\ Len(s) >= 2
      THEN <<(IF s[2] = "n" THEN "\n" ELSE s[2])>> \o unescape(SubSeq(s, 3, Len(s)))
    ELSE <<s[1]>> \o unescape(Tail(s))

\* the fields that hold text the user typed
TextFields == {"title", "content"}
JunkTok == [t |-> "junk"]

\* JSON.stringify of the value v of the field k of a note: pinned is a
\* boolean, color is null or a string, every other field is a string
stringifyValue(k, v) ==
    IF k = "pinned" THEN (IF v THEN TrueTok ELSE FalseTok)
    ELSE IF k = "color" /\ v = Null THEN NullTok
    ELSE IF k \in TextFields THEN StringTok(escape(v))
    ELSE PlainTok(v)

\* JSON.parse of the text of a field value
parseValue(x) ==
    IF x.t = "true" THEN TRUE
    ELSE IF x.t = "false" THEN FALSE
    ELSE IF x.t = "null" THEN Null
    ELSE IF x.t = "string" THEN unescape(x.v)
    ELSE x.v

\* JSON.stringify of a note: the text of each of its fields, by key
stringifyNote(o) == [k \in DOMAIN o |-> stringifyValue(k, o[k])]

\* JSON.parse of the text of a note
parseNote(text) == [k \in DOMAIN text |-> parseValue(text[k])]

ObjTok(o) == [t |-> "object", v |-> stringifyNote(o)]

IsValueTok(x) == x.t \in {"object", "null"}

\* the JavaScript value a value token decodes to
ValueOf(x) == IF x.t = "object" THEN parseNote(x.v) ELSE Null

\* an array that is an element of another array; the Collection itself and
\* what loadNotes returns are sequences
ArrayValue(items) == [array |-> items]
IsArrayValue(x) == "array" \in DOMAIN x

\* obj.k !== undefined
has(obj, k) == k \in DOMAIN obj

\* the value `undefined`
Undefined == [undefined |-> TRUE]

\* n.id, which is undefined on an element that is not a note
idOf(n) == IF has(n, "id") THEN n.id ELSE Undefined

RECURSIVE stringifyElement(_)
RECURSIVE stringifyElements(_)
\* JSON text of the elements of an array, commas between them
stringifyElements(xs) ==
    IF Len(xs) = 0 THEN <<>>
    ELSE IF Len(xs) = 1 THEN stringifyElement(xs[1])
    ELSE stringifyElement(xs[1]) \o <<COMMA>> \o stringifyElements(Tail(xs))

\* JSON text of one element: an array, null or an object
stringifyElement(x) ==
    IF IsArrayValue(x) THEN <<LB>> \o stringifyElements(x.array) \o <<RB>>
    ELSE IF x = Null THEN <<NullTok>>
    ELSE <<ObjTok(x)>>

\* JSON.stringify of an array
JSONStringify(ns) == <<LB>> \o stringifyElements(ns) \o <<RB>>

ParseFailure == [ok |-> FALSE, isArray |-> FALSE, val |-> <<>>, next |-> 0]

RECURSIVE parseValueAt(_, _)
RECURSIVE parseElementsAt(_, _, _)
\* the JSON value whose text starts at position i of raw, and the position
\* after it: an object, null, or an array of values
parseValueAt(raw, i) ==
    IF i > Len(raw) THEN ParseFailure
    ELSE IF IsValueTok(raw[i])
      THEN [ok |-> TRUE, isArray |-> FALSE, val |-> ValueOf(raw[i]), next |-> i + 1]
    ELSE IF raw[i] = LB
      THEN IF i + 1 <= Len(raw) /\ raw[i + 1] = RB
             THEN [ok |-> TRUE, isArray |-> TRUE, val |-> <<>>, next |-> i + 2]
             ELSE parseElementsAt(raw, i + 1, <<>>)
    ELSE ParseFailure

\* the elements of an array from position i of raw on, acc being the
\* elements before: a value, then either "]" or "," and more elements
parseElementsAt(raw, i, acc) ==
    LET v == parseValueAt(raw, i)
        elem == IF v.isArray THEN ArrayValue(v.val) ELSE v.val
    IN  IF ~v.ok \/ v.next > Len(raw) THEN ParseFailure
        ELSE IF raw[v.next] = RB
          THEN [ok |-> TRUE, isArray |-> TRUE, val |-> Append(acc, elem),
                next |-> v.next + 1]
        ELSE IF raw[v.next] = COMMA
          THEN parseElementsAt(raw, v.next + 1, Append(acc, elem))
        ELSE ParseFailure

\* JSON.parse: [threw |-> TRUE] on a SyntaxError, else the decoded value,
\* items being its elements when it is an array
JSONParse(raw) ==
    LET v == parseValueAt(raw, 1)
    IN  IF v.ok /\ v.next = Len(raw) + 1
          THEN [threw |-> FALSE, isArray |-> v.isArray,
                items |-> IF v.isArray THEN v.val ELSE <<>>]
          ELSE [threw |-> TRUE, isArray |-> FALSE, items |-> <<>>]

\* localStorage.getItem(STORAGE_KEY): null when the key is absent
getItem(s) == IF s.present THEN s.text ELSE Null

Absent == [present |-> FALSE, text |-> <<>>]
Stored(text) == [present |-> TRUE, text |-> text]

\* loadNotes without the try/catch and the Array.isArray test
loadNotes_Unguarded(s) ==
    LET raw == getItem(s)
        parsed == JSONParse(raw)
    IN  IF raw = Null \/ Len(raw) = 0 THEN [threw |-> FALSE, val |-> <<>>]
        ELSE [threw |-> parsed.threw, val |-> parsed.items]

\* loadNotes: [threw, val], threw being whether an exception reaches the caller
loadNotes(s) ==
    LET raw == getItem(s)
        parsed == JSONParse(raw)
    IN  IF raw = Null \/ Len(raw) = 0 THEN [threw |-> FALSE, val |-> <<>>]
        ELSE IF parsed.threw THEN [threw |-> FALSE, val |-> <<>>]
        ELSE IF parsed.isArray THEN [threw |-> FALSE, val |-> parsed.items]
        ELSE [threw |-> FALSE, val |-> <<>>]

\* localStorage.setItem(STORAGE_KEY, text) on the slot cur: it throws and
\* leaves the slot alone when the medium rejects the write
setItem(cur, med, text) ==
    IF med = "ok" THEN [threw |-> FALSE, slot |-> Stored(text)]
    ELSE [threw |-> TRUE, slot |-> cur]

-----------------------------------------------------------------------------
(* Sorting and filtering *)

\* new Date(t).toISOString(): the ISO-8601 text of the instant t (in ms)
toISOString(t) == <<"iso", t>>

\* new Date(iso), as a number: the instant an ISO-8601 text denotes
DateOf(iso) == iso[2]

\* (a, b) => new Date(b.updatedAt) - new Date(a.updatedAt). Without an
\* updatedAt the date is invalid and the difference NaN, which sort takes as 0
sortByUpdated(a, b) ==
    IF has(a, "updatedAt") /\ has(b, "updatedAt")
      THEN DateOf(b.updatedAt) - DateOf(a.updatedAt)
      ELSE 0

\* s.sort(sortByUpdated). Array.prototype.sort is stable (ES2019): an element
\* goes after every element that compares before it and after the earlier
\* elements that compare equal to it
sortNotes(s) ==
    LET n == Len(s)
        rank(i) == Cardinality({j \in 1..n : sortByUpdated(s[j], s[i]) < 0})
                   + Cardinality({j \in 1..n : j < i /\ sortByUpdated(s[j], s[i]) = 0})
                   + 1
    IN  [k \in 1..n |-> s[CHOOSE i \in 1..n : rank(i) = k]]

\* n => n.pinned and n => !n.pinned; an undefined `pinned` is falsy
IsPinned(n) == has(n, "pinned") /\ n.pinned
NotPinned(n) == ~IsPinned(n)

\* Sidebar's `sorted` without the pinned / others partition
sorted_NoPartition(ns) == sortNotes(ns)

\* Sidebar's `sorted`: pinned first, then the others, each by updatedAt desc
sorted(ns) ==
    sortNotes(SelectSeq(ns, IsPinned)) \o sortNotes(SelectSeq(ns, NotPinned))

\* n.title || '' and n.content || ''
titleOf(n) == IF has(n, "title") THEN n.title ELSE <<>>
contentOf(n) == IF has(n, "content") THEN n.content ELSE <<>>

\* filteredNotes looking at the title only
filteredNotes_TitleOnly(ns, srch) ==
    LET q == toLowerCase(trim(srch))
        keep(n) == includes(toLowerCase(titleOf(n)), q)
    IN  IF q = <<>> THEN ns ELSE SelectSeq(ns, keep)

\* App's `filteredNotes`
filteredNotes(ns, srch) ==
    LET q == toLowerCase(trim(srch))
        keep(n) == LET t == toLowerCase(titleOf(n))
                       c == toLowerCase(contentOf(n))
                   IN  includes(t, q) \/ includes(c, q)
    IN  IF q = <<>> THEN ns ELSE SelectSeq(ns, keep)

\* what the Sidebar lists: sorted over filteredNotes
visibleNotes(ns, srch) == sorted(filteredNotes(ns, srch))

\* App's `activeNote`: notes.find(n => n.id === activeId) || null
activeNote(ns, aid) ==
    IF \E i \in 1..Len(ns) : idOf(ns[i]) = aid
      THEN ns[CHOOSE i \in 1..Len(ns) :
                /\ idOf(ns[i]) = aid
                /\ \A j \in 1..(i - 1) : idOf(ns[j]) # aid]
      ELSE Null

-----------------------------------------------------------------------------
(* Saving *)

\* saveNotes never reaching the slot
saveNotes_Dropped(cur, med, ns) == cur

\* saveNotes writing the notes in the order the Sidebar lists them
saveNotes_AsListed(cur, med, ns) == setItem(cur, med, JSONStringify(sorted(ns))).slot

\* saveNotes: the slot after the call
saveNotes(cur, med, ns) == setItem(cur, med, JSONStringify(ns)).slot

\* saveNotes without its try/catch
saveNotesRaises_NoCatch(cur, med, ns) == setItem(cur, med, JSONStringify(ns)).threw

\* whether saveNotes lets an exception reach its caller: the catch block is
\* empty, so an exception of setItem ends there
saveNotesRaises(cur, med, ns) ==
    IF setItem(cur, med, JSONStringify(ns)).threw THEN FALSE ELSE FALSE

-----------------------------------------------------------------------------
(* The Write Coalescer: useDebouncedCallback *)

NoTimer == [due |-> -1, args |-> <<>>]    \* timeoutRef.current = null

\* debounced(args) without the clearTimeout of the previous timeout
debounced_NoClear(tms, ref, args, t) ==
    LET nt == [due |-> t + Delay, args |-> args]
    IN  [timers |-> tms \cup {nt}, ref |-> nt]

\* debounced(args) at time t: clears the timeout timeoutRef points to and
\* sets a new one that will call saveNotes(args)
debounced(tms, ref, args, t) ==
    LET nt == [due |-> t + Delay, args |-> args]
    IN  [timers |-> (IF ref # NoTimer THEN tms \ {ref} ELSE tms) \cup {nt},
         ref |-> nt]

\* the unmount cleanup left out
cleanup_Missing(tms, ref) == tms

\* the unmount cleanup: clearTimeout(timeoutRef.current)
cleanup(tms, ref) == tms \ {ref}

-----------------------------------------------------------------------------
(* Inputs *)

Titles == {<<>>, <<"F">>}
Contents == {<<>>, <<Quote, "f">>}
Queries == {<<>>, <<" ">>, <<" ", "F">>}

UnknownId == <<-1, 0>>      \* an id no note carries
ForgedTime == toISOString(-4 * TickMs)   \* a createdAt no note was created at

LastTick == (MaxTime \div TickMs) * TickMs

\* a note persisted by an earlier session
SeedNote ==
    [id |-> uid(-2 * TickMs, 0), title |-> <<"F">>, content |-> <<>>,
     createdAt |-> toISOString(-2 * TickMs),
     updatedAt |-> toISOString(-TickMs), pinned |-> FALSE,
     color |-> Null]

InitSlots == {Absent, Stored(<<JunkTok>>), Stored(JSONStringify(<<SeedNote>>))}

\* collections persisted by earlier sessions: distinct ids, earlier timestamps
SeedIds == {uid(-3 * TickMs, k) : k \in 1..MaxSeeded}
SeedTimes == {toISOString(-3 * TickMs), toISOString(-2 * TickMs), toISOString(-TickMs)}

SeededCollections(noteSet) ==
    {c \in UNION {[1..n -> noteSet] : n \in 0..MaxSeeded} :
        \A i, j \in 1..Len(c) : i # j => c[i].id # c[j].id}

ViewNotes ==
    [id : SeedIds, title : Titles, content : Contents,
     createdAt : {toISOString(-3 * TickMs)}, updatedAt : SeedTimes, pinned : BOOLEAN,
     color : {Null}]

PlainNotes ==
    [id : SeedIds, title : {<<>>}, content : {<<>>},
     createdAt : {toISOString(-3 * TickMs)}, updatedAt : SeedTimes, pinned : {FALSE},
     color : {Null}]

ViewSlots == {Stored(JSONStringify(c)) : c \in SeededCollections(ViewNotes)}
DeleteSlots == {Stored(JSONStringify(c)) : c \in SeededCollections(PlainNotes)}

\* slot contents of any shape: absent, empty, and every short token text
SlotTokens == {LB, RB, COMMA, JunkTok, ObjTok(SeedNote)}
LoadSlots ==
    {Absent, Stored(<<NullTok>>)} \cup
    {Stored(x) : x \in UNION {[1..n -> SlotTokens] : n \in 0..MaxText}}

\* contents to render: every short text over the characters the renderer
\* treats specially, a plain letter and the line break, and "<script>"
RenderChars == {"<", ">", "&", "#", " ", "*", Backquote, "a", "\n"}
ScriptText == <<"<", "s", "c", "r", "i", "p", "t", ">">>
RenderTexts == {ScriptText} \cup UNION {[1..n -> RenderChars] : n \in 0..MaxRender}
RenderSlots ==
    {Stored(JSONStringify(<<[SeedNote EXCEPT !.content = t]>>)) : t \in RenderTexts}

\* the ids carried by the notes of ns
IdsOf(ns) == {ns[i].id : i \in {j \in 1..Len(ns) : has(ns[j], "id")}}

\* objects handed to updateNote: any id, any field values; createdAt is that
\* of a note carrying the id, or a forged one
Payloads(ns) ==
    UNION {[id : {i}, title : Titles, content : Contents,
            createdAt : {ns[k].createdAt : k \in {j \in 1..Len(ns) : idOf(ns[j]) = i}}
                        \cup {ForgedTime},
            updatedAt : {ForgedTime}, pinned : BOOLEAN, color : {Null}]
           : i \in IdsOf(ns) \cup {UnknownId}}

\* objects a caller of updateNote may still hold: the notes as they were
\* loaded, whatever has become of them since
StaleCopies == {loaded.val[k] : k \in 1..Len(loaded.val)}

-----------------------------------------------------------------------------
(* The App component *)

\* the note built by handleNewNote: the clock reads tid in uid(), then tc and
\* tu in the two new Date() calls; r is the random suffix
NewNote(tid, tc, tu, r) ==
    [id |-> uid(tid, r), title |-> <<>>, content |-> <<>>,
     createdAt |-> toISOString(tc), updatedAt |-> toISOString(tu),
     pinned |-> FALSE, color |-> Null]

\* the three clock readings of a handleNewNote call that starts at time t:
\* the clock, which moves in steps of TickMs, may step once between two of
\* the reads
ClockReads(t) ==
    {<<t, t, t>>} \cup
    (IF t + TickMs + Delay <= LastTick
       THEN {<<t, t, t + TickMs>>, <<t, t + TickMs, t + TickMs>>}
       ELSE {})

\* the positions of prev whose note carries the id
Matches(prev, id) == {i \in 1..Len(prev) : idOf(prev[i]) = id}

\* the clock readings of one updateNote call that starts at time t, as the
\* map goes through prev: ts[i] is what the clock shows at element i. The
\* callback reads the clock (new Date()) at each element carrying the id, so
\* the clock, which moves in steps of TickMs, may have stepped between two
\* such reads; the first read is made at t
MapReads(prev, id, t) ==
    LET m == Matches(prev, id)
        n == Len(prev)
    IN  IF Cardinality(m) <= 1 \/ t + TickMs + Delay > LastTick
          THEN {[i \in 1..n |-> t]}
          ELSE {ts \in [1..n -> {t + k * TickMs : k \in 0..(Cardinality(m) - 1)}] :
                  /\ ts[n] + Delay <= LastTick
                  /\ \A i \in 1..n :
                        LET before == IF i = 1 THEN t ELSE ts[i - 1]
                        IN  \/ ts[i] = before
                            \/ /\ i \in m
                               /\ \E j \in m : j < i
                               /\ ts[i] = before + TickMs}

\* what the clock shows when the map is through
LastRead(ts, t) == IF Len(ts) = 0 THEN t ELSE ts[Len(ts)]

\* updateNote's state update refreshing updatedAt of every note
updateNote_StampsAll(prev, next, ts) ==
    [i \in 1..Len(prev) |->
        [(IF idOf(prev[i]) = next.id THEN next ELSE prev[i])
            EXCEPT !.updatedAt = toISOString(ts[i])]]

\* updateNote's state update, the clock showing ts[i] at element i:
\* prev.map(n => n.id === next.id
\*                 ? {...next, updatedAt: new Date().toISOString()} : n)
updateNote(prev, next, ts) ==
    [i \in 1..Len(prev) |->
        IF idOf(prev[i]) = next.id THEN [next EXCEPT !.updatedAt = toISOString(ts[i])]
        ELSE prev[i]]

\* prev.filter(n => n.id !== id)
removeNote(prev, id) == LET keep(n) == idOf(n) # id IN SelectSeq(prev, keep)

\* x?.id || null
idOrNull(x) == IF has(x, "id") THEN x.id ELSE Null

\* the choice made with the comparator reversed: the oldest remaining note
nextActive_Oldest(remaining) ==
    IF Len(remaining) = 0 THEN Null
    ELSE idOrNull(sortNotes(remaining)[Len(remaining)])

\* handleDeleteNote's choice of the next active id:
\* remaining.sort(by updatedAt desc)[0]?.id || null
nextActive(remaining) ==
    IF Len(remaining) = 0 THEN Null
    ELSE idOrNull(sortNotes(remaining)[1])

\* useState initialiser of activeId: loadNotes()[0]?.id || null
firstId(ns) == IF Len(ns) = 0 THEN Null ELSE idOrNull(ns[1])

\* setNotes(ns) and the effect that follows the render, at time t:
\* debouncedSave(notes)
SetNotesAt(ns, t) ==
    LET d == debounced(timers, timeoutRef, ns, t)
    IN  /\ notes' = ns
        /\ timers' = d.timers
        /\ timeoutRef' = d.ref
        /\ burstSaves' = 0
        /\ lastSaveArg' = <<>>
        /\ edits' = edits + 1

SetNotes(ns) == SetNotesAt(ns, now)

\* NoteEditor's content preview: renderBasicMarkdown(note.content) while
\* `preview` is on and there is an active note, nothing otherwise
previewHtml(on, ns, aid) ==
    IF on /\ activeNote(ns, aid) # Null
      THEN renderBasicMarkdown(activeNote(ns, aid).content)
      ELSE Null

\* the location hashes: the notes view and the developer view
MainRoute == <<"#", "/">>
DevRoute == <<"#", "/", "d", "e", "v", "/", "f", "i", "g", "m", "a">>

\* the location hashes the page is at: none, the notes view, the developer
\* view and a path below it
Hashes == {<<>>, MainRoute, DevRoute, DevRoute \o <<"/", "x">>}

\* the location hashes the page is opened at in the larger specifications
EntryHashes == {MainRoute, DevRoute}

\* s.startsWith(p)
startsWith(s, p) == Len(s) >= Len(p) /\ SubSeq(s, 1, Len(p)) = p

\* window.location.hash || '#/'
routeOf(h) == IF h = <<>> THEN MainRoute ELSE h

\* route.startsWith('#/dev/figma')
isDevRoute(r) == startsWith(r, DevRoute)

\* NoteEditor's state when it mounts: useState(false)
PreviewOff == [on |-> FALSE, html |-> Null]

\* the Sidebar is on the page: {!isDevRoute && (...)} of a mounted App
SidebarRendered == mounted /\ ~isDevRoute(route)

\* what the Sidebar lists on route r: it is rendered on the notes view only
listed(r, ns, srch) == IF isDevRoute(r) THEN <<>> ELSE visibleNotes(ns, srch)

\* the Sidebar and the NoteEditor render again after every state change; on
\* the developer view neither is rendered and the NoteEditor's state is gone
Render ==
    /\ shown' = listed(route', notes', search')
    /\ preview' = IF isDevRoute(route') THEN PreviewOff
                  ELSE [on |-> preview.on,
                        html |-> previewHtml(preview.on, notes', activeId')]

CanEdit == mounted /\ edits < MaxEdits /\ now + Delay <= LastTick

\* construction of App from the slot s at time t, with the timeouts tms alive;
\* the route is read from the location
Construct(s, t, tms) ==
    LET l == loadNotes(s)
        d == debounced(tms, NoTimer, l.val, t)
    IN  /\ loaded' = [slot |-> s, threw |-> l.threw, val |-> l.val]
        /\ notes' = l.val
        /\ activeId' = firstId(l.val)
        /\ search' = <<>>
        /\ timers' = d.timers
        /\ timeoutRef' = d.ref
        /\ burstSaves' = 0
        /\ lastSaveArg' = <<>>
        /\ mounted' = TRUE
        /\ route' = routeOf(hash)
        /\ shown' = listed(route', notes', search')
        /\ preview' = PreviewOff

InitWith(slots, hashes) ==
    /\ slot \in slots
    /\ hash \in hashes
    /\ hashEvents = 0
    /\ medium = "ok"
    /\ now = 0
    /\ lastSaveArg = <<>>
    /\ edits = 0
    /\ LET l == loadNotes(slot)
           d == debounced({}, NoTimer, l.val, 0)
       IN  /\ loaded = [slot |-> slot, threw |-> l.threw, val |-> l.val]
           /\ notes = l.val
           /\ activeId = firstId(l.val)
           /\ search = <<>>
           /\ timers = d.timers
           /\ timeoutRef = d.ref
           /\ burstSaves = 0
           /\ mounted = TRUE
           /\ route = routeOf(hash)
           /\ shown = listed(route, l.val, <<>>)
           /\ preview = PreviewOff
           /\ raised = FALSE

Init == InitWith(InitSlots, EntryHashes)

\* handleNewNote
HandleNewNote ==
    /\ CanEdit
    /\ \E r \in Rand, reads \in ClockReads(now) :
        LET n == NewNote(reads[1], reads[2], reads[3], r)
        IN  /\ now' = reads[3]
            /\ SetNotesAt(<<n>> \o notes, reads[3])
            /\ activeId' = n.id
    /\ UNCHANGED <<search, slot, medium, mounted, loaded,
                   raised, route, hash, hashEvents>>
    /\ Render

\* updateNote(next)
UpdateNoteOf(next) ==
    /\ CanEdit
    /\ \E ts \in MapReads(notes, next.id, now) :
        /\ now' = LastRead(ts, now)
        /\ SetNotesAt(updateNote(notes, next, ts), LastRead(ts, now))
    /\ UNCHANGED <<activeId, search, slot, medium, mounted, loaded,
                   raised, route, hash, hashEvents>>
    /\ Render

\* updateNote(next), for any object next
UpdateNote == \E next \in Payloads(notes) \cup StaleCopies : UpdateNoteOf(next)

\* NoteEditor.handleTitle: onChange({...note, title: v})
HandleTitle ==
    /\ CanEdit
    /\ ~isDevRoute(route)
    /\ activeNote(notes, activeId) # Null
    /\ \E v \in Titles, ts \in MapReads(notes, activeId, now) :
        LET next == [activeNote(notes, activeId) EXCEPT !.title = v]
        IN  /\ now' = LastRead(ts, now)
            /\ SetNotesAt(updateNote(notes, next, ts), LastRead(ts, now))
    /\ UNCHANGED <<activeId, search, slot, medium, mounted, loaded,
                   raised, route, hash, hashEvents>>
    /\ Render

\* NoteEditor.handleContent: onChange({...note, content: v})
HandleContent ==
    /\ CanEdit
    /\ ~isDevRoute(route)
    /\ activeNote(notes, activeId) # Null
    /\ \E v \in Contents, ts \in MapReads(notes, activeId, now) :
        LET next == [activeNote(notes, activeId) EXCEPT !.content = v]
        IN  /\ now' = LastRead(ts, now)
            /\ SetNotesAt(updateNote(notes, next, ts), LastRead(ts, now))
    /\ UNCHANGED <<activeId, search, slot, medium, mounted, loaded,
                   raised, route, hash, hashEvents>>
    /\ Render

\* handleTogglePin
HandleTogglePin ==
    /\ CanEdit
    /\ activeNote(notes, activeId) # Null
    /\ \E ts \in MapReads(notes, activeId, now) :
        LET an == activeNote(notes, activeId)
            next == [an EXCEPT !.pinned = ~an.pinned]
        IN  /\ now' = LastRead(ts, now)
            /\ SetNotesAt(updateNote(notes, next, ts), LastRead(ts, now))
    /\ UNCHANGED <<activeId, search, slot, medium, mounted, loaded,
                   raised, route, hash, hashEvents>>
    /\ Render

\* handleDeleteNote, the user confirming
HandleDeleteNote ==
    /\ CanEdit
    /\ activeNote(notes, activeId) # Null
    /\ LET an == activeNote(notes, activeId)
       IN  /\ SetNotes(removeNote(notes, an.id))
           /\ activeId' = nextActive(removeNote(notes, an.id))
    /\ UNCHANGED <<search, slot, medium, mounted, now, loaded,
                   raised, route, hash, hashEvents>>
    /\ Render

\* handleDeleteNote, without an active note or the user declining
HandleDeleteDeclined ==
    /\ mounted
    /\ UNCHANGED vars

\* handleSelectNote(id)
HandleSelectNote ==
    /\ mounted
    /\ \E id \in IdsOf(notes) \cup {UnknownId} : activeId' = id
    /\ UNCHANGED <<notes, search, slot, medium, timers, timeoutRef, mounted, now,
                   burstSaves, lastSaveArg, loaded, edits,
                   raised, route, hash, hashEvents>>
    /\ Render

\* setSearch(q)
SetSearch ==
    /\ mounted
    /\ \E q \in Queries : search' = q
    /\ UNCHANGED <<notes, activeId, slot, medium, timers, timeoutRef, mounted, now,
                   burstSaves, lastSaveArg, loaded, edits,
                   raised, route, hash, hashEvents>>
    /\ Render

\* the save shortcut going through debouncedSave instead of saveNotes
ManualSave_ViaCoalescer ==
    /\ mounted
    /\ LET d == debounced(timers, timeoutRef, notes, now)
       IN  timers' = d.timers /\ timeoutRef' = d.ref
    /\ UNCHANGED <<notes, activeId, search, slot, medium, mounted, now,
                   burstSaves, lastSaveArg, shown, loaded, edits, raised, preview, route, hash, hashEvents>>

\* the Preview / Edit button of the NoteEditor: setPreview(p => !p)
TogglePreview ==
    /\ mounted
    /\ ~isDevRoute(route)
    /\ activeNote(notes, activeId) # Null
    /\ preview' = [on |-> ~preview.on,
                   html |-> previewHtml(~preview.on, notes, activeId)]
    /\ UNCHANGED <<notes, activeId, search, slot, medium, timers, timeoutRef, mounted,
                   now, burstSaves, lastSaveArg, shown, loaded, edits, raised, route, hash, hashEvents>>

\* the location hash changes (the Developer and Back links, the address
\* bar): the browser queues a hashchange event
HashChange ==
    /\ hashEvents < MaxHashEvents
    /\ \E h \in Hashes \ {hash} : hash' = h
    /\ hashEvents' = hashEvents + 1
    /\ UNCHANGED <<notes, activeId, search, slot, medium, timers, timeoutRef, mounted,
                   now, burstSaves, lastSaveArg, shown, loaded, edits, raised, preview,
                   route>>

\* a queued hashchange event reaches the listener of the mounted App:
\* onHash, setRoute(window.location.hash || '#/')
OnHash ==
    /\ mounted
    /\ hashEvents > 0
    /\ hashEvents' = hashEvents - 1
    /\ route' = routeOf(hash)
    /\ UNCHANGED <<notes, activeId, search, slot, medium, timers, timeoutRef, mounted,
                   now, burstSaves, lastSaveArg, loaded, edits, raised, hash>>
    /\ Render

\* a queued hashchange event is dispatched while App is unmounted: the
\* listener was removed, nothing runs
HashEventUnheard ==
    /\ ~mounted
    /\ hashEvents > 0
    /\ hashEvents' = hashEvents - 1
    /\ UNCHANGED <<notes, activeId, search, slot, medium, timers, timeoutRef, mounted,
                   now, burstSaves, lastSaveArg, shown, loaded, edits, raised, preview,
                   route, hash>>

\* Ctrl/Cmd+S: saveNotes(notes)
ManualSave ==
    /\ mounted
    /\ slot' = saveNotes(slot, medium, notes)
    /\ raised' = (raised \/ saveNotesRaises(slot, medium, notes))
    /\ UNCHANGED <<notes, activeId, search, medium, timers, timeoutRef, mounted, now,
                   burstSaves, lastSaveArg, shown, loaded, edits, preview, route, hash, hashEvents>>

\* a timeout set by debounced comes due and calls saveNotes(args)
TimerFire ==
    /\ \E tm \in timers :
        /\ now >= tm.due
        /\ timers' = timers \ {tm}
        /\ slot' = saveNotes(slot, medium, tm.args)
        /\ raised' = (raised \/ saveNotesRaises(slot, medium, tm.args))
        /\ lastSaveArg' = <<tm.args>>
    /\ burstSaves' = burstSaves + 1
    /\ UNCHANGED <<notes, activeId, search, medium, timeoutRef, mounted, now,
                   shown, loaded, edits, preview, route, hash, hashEvents>>

\* the component unmounts: the cleanup of useDebouncedCallback runs, and the
\* Sidebar and the NoteEditor go with the App
Teardown ==
    /\ mounted
    /\ mounted' = FALSE
    /\ timers' = cleanup(timers, timeoutRef)
    /\ shown' = <<>>
    /\ preview' = PreviewOff
    /\ UNCHANGED <<notes, activeId, search, slot, medium, timeoutRef, now,
                   burstSaves, lastSaveArg, loaded, edits, raised, route, hash, hashEvents>>

\* the component is mounted again: the useState initialisers read the slot
Remount ==
    /\ ~mounted
    /\ Construct(slot, now, timers)
    /\ UNCHANGED <<slot, medium, now, edits, raised, hash, hashEvents>>

\* time passes
Tick ==
    /\ now + TickMs <= MaxTime
    /\ now' = now + TickMs
    /\ UNCHANGED <<notes, activeId, search, slot, medium, timers, timeoutRef,
                   mounted, burstSaves, lastSaveArg, shown, loaded, edits,
                   raised, preview, route, hash, hashEvents>>

\* localStorage starts rejecting writes (quota exceeded, storage disabled)
MediumRejects ==
    /\ medium = "ok"
    /\ medium' = "full"
    /\ UNCHANGED <<notes, activeId, search, slot, timers, timeoutRef, mounted, now,
                   burstSaves, lastSaveArg, shown, loaded, edits,
                   raised, preview, route, hash, hashEvents>>

\* localStorage accepts writes again
MediumAccepts ==
    /\ medium = "full"
    /\ medium' = "ok"
    /\ UNCHANGED <<notes, activeId, search, slot, timers, timeoutRef, mounted, now,
                   burstSaves, lastSaveArg, shown, loaded, edits,
                   raised, preview, route, hash, hashEvents>>

Next ==
    \/ HandleNewNote
    \/ UpdateNote
    \/ HandleTitle
    \/ HandleContent
    \/ HandleTogglePin
    \/ HandleDeleteNote
    \/ HandleDeleteDeclined
    \/ HandleSelectNote
    \/ ManualSave
    \/ TimerFire
    \/ Teardown
    \/ Remount
    \/ Tick
    \/ MediumRejects
    \/ MediumAccepts

Spec == Init /\ [][Next]_vars

\* the event loop runs a due timeout, and time passes
LiveSpec == Spec /\ WF_vars(Tick) /\ WF_vars(TimerFire)

\* the sidebar over every persisted collection and every query
InitView == InitWith(ViewSlots, EntryHashes)
NextView == SetSearch
SpecView == InitView /\ [][NextView]_vars

\* selecting and deleting over every persisted collection
InitDelete == InitWith(DeleteSlots, EntryHashes)
NextDelete == HandleSelectNote \/ HandleDeleteNote \/ HandleDeleteDeclined
SpecDelete == InitDelete /\ [][NextDelete]_vars

\* mounting over every content of the slot and every location hash
InitLoad == InitWith(LoadSlots, Hashes)
NextLoad == Teardown \/ Remount
SpecLoad == InitLoad /\ [][NextLoad]_vars

\* the content preview over every short content, on and off the notes view
InitRender == InitWith(RenderSlots, Hashes)
NextRender == TogglePreview
SpecRender == InitRender /\ [][NextRender]_vars

\* the location hash changing under a mounted and an unmounted App, with the
\* timeouts, the save shortcut and the preview going on meanwhile
InitRoute == InitWith({Absent, Stored(JSONStringify(<<SeedNote>>))}, Hashes)
NextRoute ==
    \/ HashChange
    \/ OnHash
    \/ HashEventUnheard
    \/ TogglePreview
    \/ HandleSelectNote
    \/ ManualSave
    \/ TimerFire
    \/ Tick
    \/ Teardown
    \/ Remount
SpecRoute == InitRoute /\ [][NextRoute]_vars

\* a note created, and saved with the save shortcut, in the clock reading
\* at which App mounts: its id was minted from that reading
NoteOfThisTick == NewNote(0, 0, 0, 0)

\* creating and deleting over a slot that holds an earlier note, or a note of
\* this clock reading
InitResurrect ==
    InitWith({Stored(JSONStringify(<<SeedNote>>)),
              Stored(JSONStringify(<<NoteOfThisTick>>))}, {MainRoute})
NextResurrect ==
    \/ HandleNewNote
    \/ HandleDeleteNote
    \/ UpdateNote
    \/ HandleSelectNote
    \/ ManualSave
    \/ TimerFire
    \/ Tick
SpecResurrect == InitResurrect /\ [][NextResurrect]_vars

-----------------------------------------------------------------------------
(* Properties *)

CurrentSnapshot == Stored(JSONStringify(notes))

\* C1 (coalescing): however many setNotes calls follow one another, at most
\* one timeout is pending, it carries the collection as it stands after the
\* last call and is due one quiet period after that call; a timeout saves
\* only once that quiet period has passed, saves the current collection, and
\* no second timeout save follows until the collection changes again.
C1_Coalescing ==
    /\ [](/\ timers \subseteq {[due |-> timeoutRef.due, args |-> notes]}
          /\ burstSaves <= 1
          /\ (timers # {} => burstSaves = 0 /\ lastSaveArg = <<>>)
          /\ (burstSaves = 1 => timers = {} /\ lastSaveArg = <<notes>>))
    /\ [][burstSaves' = burstSaves + 1 =>
            /\ burstSaves = 0
            /\ now >= timeoutRef.due
            /\ lastSaveArg' = <<notes>>
            /\ (medium = "ok" => slot' = CurrentSnapshot)]_vars

\* a burst of the mount's schedule and two updateNote calls on the loaded
\* note, the last one TickMs after the mount, saved once, a quiet period after
\* the last call
C1_Witness ==
    /\ loaded.val = <<SeedNote>>
    /\ edits = 2
    /\ Len(notes) = 1
    /\ notes[1].id = SeedNote.id
    /\ notes[1].updatedAt = toISOString(TickMs)
    /\ burstSaves = 1
    /\ timeoutRef.due = TickMs + Delay
    /\ now = timeoutRef.due
    /\ lastSaveArg = <<notes>>
    /\ slot = CurrentSnapshot

\* C2 (convergence): if the component stays mounted and the medium keeps
\* accepting writes, then once the setNotes calls have stopped the durable
\* slot comes to hold the current collection and keeps holding it.
C2_Convergence ==
    ([](mounted /\ medium = "ok") /\ <>[][edits' = edits]_vars)
        => <>[](slot = CurrentSnapshot)

\* a timeout has saved the collection two edits produced
C2_Witness ==
    /\ mounted /\ medium = "ok"
    /\ edits = 2
    /\ burstSaves = 1
    /\ slot = CurrentSnapshot
    /\ notes # loaded.val

\* C3 (update identity-preservation), as claimed: an updateNote call leaves
\* the id and the createdAt of every note as they were.
C3_IdentityPreserved ==
    [][(edits' = edits + 1 /\ Len(notes') = Len(notes)) =>
        \A i \in 1..Len(notes) :
            /\ notes'[i].id = notes[i].id
            /\ notes'[i].createdAt = notes[i].createdAt]_vars

\* C4 (active pointer after delete): when handleDeleteNote removes the active
\* note, activeId becomes the id of the remaining note with the greatest
\* updatedAt, the first such note in Collection order, or Null when no note
\* remains.
MostRecentFirst(rem) ==
    IF Len(rem) = 0 THEN Null
    ELSE rem[CHOOSE i \in 1..Len(rem) :
                \A j \in 1..Len(rem) :
                    /\ DateOf(rem[j].updatedAt) <= DateOf(rem[i].updatedAt)
                    /\ (j < i => DateOf(rem[j].updatedAt) < DateOf(rem[i].updatedAt))].id

C4_DeleteReassigns ==
    [][(Len(notes') < Len(notes) /\ activeId \in IdsOf(notes)
            /\ activeId \notin IdsOf(notes'))
        => activeId' = MostRecentFirst(notes')]_vars

\* the first of three loaded notes was deleted, the two that remain tie on
\* updatedAt, and the first of them is active
C4_Witness ==
    /\ Len(loaded.val) = 3
    /\ Len(notes) = 2
    /\ edits = 1
    /\ notes[1].updatedAt = notes[2].updatedAt
    /\ activeId = notes[1].id

\* the first of three loaded notes was deleted and the more recent of the
\* two that remain, the second one, is active
C4_WitnessRecent ==
    /\ Len(loaded.val) = 3
    /\ Len(notes) = 2
    /\ edits = 1
    /\ DateOf(notes[1].updatedAt) < DateOf(notes[2].updatedAt)
    /\ activeId = notes[2].id

PositionIn(ns, n) == CHOOSE i \in 1..Len(ns) : ns[i] = n

NoteA == [id |-> uid(-3 * TickMs, 1), title |-> <<>>, content |-> <<>>,
          createdAt |-> toISOString(-3 * TickMs),
          updatedAt |-> toISOString(-3 * TickMs),
          pinned |-> TRUE, color |-> Null]
NoteB == [id |-> uid(-3 * TickMs, 2), title |-> <<>>, content |-> <<>>,
          createdAt |-> toISOString(-3 * TickMs),
          updatedAt |-> toISOString(-2 * TickMs),
          pinned |-> TRUE, color |-> Null]
NoteC == [id |-> uid(-3 * TickMs, 3), title |-> <<>>, content |-> <<>>,
          createdAt |-> toISOString(-3 * TickMs),
          updatedAt |-> toISOString(-TickMs),
          pinned |-> FALSE, color |-> Null]

\* C5 (visible-list order): with an empty query the Sidebar lists every note
\* of the collection once, pinned notes before the others, each group by
\* updatedAt descending, notes of a group with equal updatedAt in Collection
\* order; A(pinned, t1), B(pinned, t2 > t1), C(unpinned, t3 > t2) are listed
\* [B, A, C] whatever their order in the collection. The Sidebar is there
\* while App is mounted on the notes view.
C5_VisibleOrder ==
    SidebarRendered /\ toLowerCase(trim(search)) = <<>> =>
        /\ Len(shown) = Len(notes)
        /\ {shown[i] : i \in 1..Len(shown)} = {notes[i] : i \in 1..Len(notes)}
        /\ \A i, j \in 1..Len(shown) : i < j =>
            /\ (shown[j].pinned => shown[i].pinned)
            /\ (shown[i].pinned = shown[j].pinned =>
                    DateOf(shown[i].updatedAt) >= DateOf(shown[j].updatedAt))
            /\ (shown[i].pinned = shown[j].pinned
                    /\ shown[i].updatedAt = shown[j].updatedAt =>
                    PositionIn(notes, shown[i]) < PositionIn(notes, shown[j]))
        /\ ({notes[i] : i \in 1..Len(notes)} = {NoteA, NoteB, NoteC} =>
                shown = <<NoteB, NoteA, NoteC>>)

\* under a query of blanks, the collection [C, A, B] is listed [B, A, C]
C5_Witness ==
    /\ search = <<" ">>
    /\ notes = <<NoteC, NoteA, NoteB>>
    /\ shown = <<NoteB, NoteA, NoteC>>

\* C6 (selectNote), as claimed: selecting an id no note carries leaves
\* activeId unchanged, so a step that changes nothing but activeId sets it to
\* the id of a note of the Collection.
C6_SelectKnownOnly ==
    [][(mounted /\ activeId' # activeId /\ notes' = notes /\ edits' = edits
            /\ mounted')
        => activeId' \in IdsOf(notes)]_vars

\* C7 (teardown cancels the timer): while the component is unmounted no
\* timeout is pending and the durable slot does not change.
C7_NoSaveAfterTeardown ==
    /\ [](~mounted => timers = {})
    /\ [][~mounted => slot' = slot]_vars

\* the component was unmounted with the timeout of an edit pending, the time
\* that timeout was due at has come, and it made no save
C7_Witness ==
    /\ ~mounted
    /\ edits >= 1
    /\ burstSaves = 0
    /\ timeoutRef.args = notes
    /\ now >= timeoutRef.due
    /\ slot # CurrentSnapshot

\* C8 (teardown flushes), as claimed: once the component is unmounted, the
\* durable slot holds the final collection, so the next mount loads it.
C8_TeardownFlushes == ~mounted => loadNotes(slot).val = notes

\* C9 (defensive load): loadNotes raises nothing, and returns a non-empty
\* array only when the slot is present and its text decodes to an array; for
\* an absent or empty slot, a text that is no JSON and a JSON value that is
\* not an array it returns the empty array.
C9_DefensiveLoad ==
    LET s == loaded.slot
        decoded == JSONParse(s.text)
        decodesToArray ==
            s.present /\ s.text # <<>> /\ ~decoded.threw /\ decoded.isArray
    IN  /\ ~loaded.threw
        /\ (~decodesToArray => loaded.val = <<>>)
        /\ (decodesToArray => loaded.val = decoded.items)

\* a text that is no JSON (an array with a trailing comma) was loaded as the
\* empty array
C9_Witness ==
    /\ loaded.slot = Stored(<<LB, ObjTok(SeedNote), COMMA, RB>>)
    /\ ~loaded.threw
    /\ loaded.val = <<>>
    /\ notes = <<>>

\* a JSON object that is not an array was loaded as the empty array
C9_WitnessObject ==
    /\ loaded.slot = Stored(<<ObjTok(SeedNote)>>)
    /\ loaded.val = <<>>

\* C10 (search filter composition): with a non-empty normalized query q the
\* Sidebar lists exactly the notes of the unfiltered list (the list for the
\* empty query) whose lower-cased title or lower-cased content contains q, in
\* the order they have there. The Sidebar is there while App is mounted on
\* the notes view.
C10_FilterComposition ==
    LET q == toLowerCase(trim(search))
        matches(n) == \/ includes(toLowerCase(n.title), q)
                      \/ includes(toLowerCase(n.content), q)
    IN  SidebarRendered /\ q # <<>> =>
            shown = SelectSeq(visibleNotes(notes, <<>>), matches)

\* a query that keeps two of three notes, which the list shows in the
\* opposite of their Collection order, one matching by its content only
C10_Witness ==
    /\ toLowerCase(trim(search)) # <<>>
    /\ Len(notes) = 3
    /\ Len(shown) = 2
    /\ shown[1] = notes[3]
    /\ shown[2] = notes[1]
    /\ shown[1].title = <<>>

\* C11 (id uniqueness), as claimed: no two notes of the Collection carry the
\* same id, whatever createNote calls were made and whenever they were made.
C11_UniqueIds ==
    \A i, j \in 1..Len(notes) : i # j => notes[i].id # notes[j].id

\* C12 (manualSave): a manualSave step on a medium that accepts writes leaves
\* the durable slot holding the current collection, whether or not a timeout
\* of the Write Coalescer is pending; it changes neither the Collection nor
\* activeId, and leaves the pending timeout as it is.
C12_ManualSave ==
    [][ManualSave =>
        /\ (medium = "ok" => slot' = Stored(JSONStringify(notes)))
        /\ notes' = notes
        /\ activeId' = activeId
        /\ timers' = timers /\ timeoutRef' = timeoutRef]_vars

\* one edit changed the loaded collection, its timeout is still pending and
\* not yet due, and the slot already holds the edited collection
C12_Witness ==
    /\ mounted /\ medium = "ok"
    /\ edits = 1
    /\ notes # loaded.val
    /\ burstSaves = 0
    /\ timers = {timeoutRef}
    /\ now < timeoutRef.due
    /\ slot = CurrentSnapshot

\* a step in which saveNotes is called: by the save shortcut or by a timeout
SaveStep == ManualSave \/ burstSaves' = burstSaves + 1

\* C13 (write failure is absorbed): no saveNotes call lets an exception reach
\* its caller; a save the medium rejects leaves the Collection, activeId and
\* the durable slot as they were; a save the medium accepts leaves the slot
\* holding the whole current collection, and the slot never changes to
\* anything else.
C13_WriteFailureAbsorbed ==
    /\ [](~raised)
    /\ [][/\ (SaveStep /\ medium # "ok" =>
                notes' = notes /\ activeId' = activeId /\ slot' = slot)
          /\ (SaveStep /\ medium = "ok" => slot' = Stored(JSONStringify(notes)))
          /\ (slot' # slot => notes' = notes /\ slot' = Stored(JSONStringify(notes)))
         ]_vars

\* the timeout of an edit has fired while the medium rejects writes: nothing
\* was raised, the edited collection is in memory and the slot is as the
\* mount found it
C13_Witness ==
    /\ mounted /\ medium # "ok" /\ ~raised
    /\ edits >= 1
    /\ notes # loaded.val
    /\ burstSaves = 1
    /\ lastSaveArg = <<notes>>
    /\ slot = loaded.slot
    /\ slot # CurrentSnapshot

\* C14 (updateNote on an unknown id): an updateNote call whose object carries
\* an id that no note of the Collection carries leaves the Collection (its
\* notes, their fields, their order) and activeId as they were; it adds no
\* note.
C14_UnknownIdNoOp ==
    [][edits' = edits + 1 =>
        \A next \in Payloads(notes) \cup StaleCopies :
            (next.id \notin IdsOf(notes) /\ UpdateNoteOf(next))
                => (notes' = notes /\ activeId' = activeId)]_vars

\* the one setNotes call made so far was an updateNote that matched no note:
\* the loaded note is untouched, still active, and a timeout is pending
C14_Witness ==
    /\ mounted
    /\ edits = 1
    /\ notes = <<SeedNote>>
    /\ activeId = SeedNote.id
    /\ timers = {timeoutRef}
    /\ timeoutRef.args = notes

\* the fields an update may name, and the values it may give them
Editable == {"title", "content", "pinned"}
ValuesOf(f) == IF f = "title" THEN Titles ELSE IF f = "content" THEN Contents ELSE BOOLEAN

\* the fields of a note other than updatedAt
Kept == {"id", "title", "content", "createdAt", "pinned", "color"}

\* the copies of notes a caller of updateNote may build its object from: the
\* notes as they are stored and displayed, and the notes as they were loaded
CopiesHeld == {notes[k] : k \in 1..Len(notes)} \cup StaleCopies

\* C15 (merged-copy update), as claimed: in every state of a mounted App,
\* whatever copy of a note of the Collection the caller builds its object
\* from and whichever one field f of title, content and pinned the update
\* names, with whatever value, updateNote leaves the Collection with the same
\* number of notes in the same order, the notes of other ids as they are,
\* and the note of that id with f as named, updatedAt what the clock shows
\* when updateNote stamps it and every other field as currently stored. (Each such call is a step of
\* UpdateNote: its object, updatedAt apart, is one of Payloads(notes).)
C15_MergedCopy ==
    mounted =>
        \A base \in CopiesHeld : \A f \in Editable : \A v \in ValuesOf(f) :
            base.id \in IdsOf(notes) =>
                \A ts \in MapReads(notes, base.id, now) :
                    LET next == [base EXCEPT ![f] = v]
                        after == updateNote(notes, next, ts)
                    IN  /\ Len(after) = Len(notes)
                        /\ \A k \in 1..Len(notes) :
                              IF notes[k].id = base.id
                                THEN /\ after[k][f] = v
                                     /\ after[k].updatedAt = toISOString(ts[k])
                                     /\ \A g \in Kept \ {f} : after[k][g] = notes[k][g]
                                ELSE after[k] = notes[k]

\* C16 (createNote), as claimed: a createNote call puts one new note in front
\* of the Collection, the notes that were there unchanged and in the same
\* order behind it; the new note has an empty title and content, is not
\* pinned, and its createdAt and updatedAt both are the time of the call;
\* it is the active note, and a timeout carrying the new Collection is
\* pending.
C16_CreateNote ==
    [][(mounted /\ mounted' /\ Len(notes') = Len(notes) + 1) =>
        LET n == notes'[1]
        IN  /\ notes' = <<n>> \o notes
            /\ n.title = <<>> /\ n.content = <<>> /\ ~n.pinned
            /\ n.createdAt = toISOString(now)
            /\ n.updatedAt = n.createdAt
            /\ activeId' = n.id
            /\ timers' = {timeoutRef'}
            /\ timeoutRef'.args = notes']_vars

\* C17 (no resurrection), as claimed: a note that App loaded and that is no
\* longer in the Collection has been removed by deleteNote, nothing else
\* takes a note out; from then on no step of that App brings its id back
\* into the Collection, whatever the operation.
C17_NoResurrection ==
    [][(mounted /\ mounted') =>
        \A i \in IdsOf(loaded.val) :
            i \notin IdsOf(notes) => i \notin IdsOf(notes')]_vars

\* C18 (persistence round-trip): a save the medium accepts, by a timeout or
\* by the save shortcut, leaves a slot from which loadNotes returns the
\* collection in memory: as many notes, in the same order, each with the
\* same fields and field values; a mount starts from what loadNotes returns
\* for the slot; and when what is saved is the collection as it was loaded,
\* loadNotes returns from the new slot what it returned from the old one.
C18_RoundTrip ==
    [][/\ (medium = "ok" /\ activeId' = activeId /\ edits' = edits /\ now' = now
              /\ mounted' = mounted /\ SaveStep =>
            LET back == loadNotes(slot').val
            IN  /\ Len(back) = Len(notes)
                /\ \A k \in 1..Len(notes) :
                      /\ DOMAIN back[k] = DOMAIN notes[k]
                      /\ \A f \in DOMAIN notes[k] : back[k][f] = notes[k][f]
                /\ (notes = loaded.val => back = loadNotes(loaded.slot).val))
       /\ (~mounted /\ mounted' => notes' = loadNotes(slot).val)]_vars

\* the loaded note was pinned and given a content with a quote in it, the
\* save shortcut wrote the collection, a later mount loaded it from the
\* slot, and the timeout of that mount has saved it again: the slot is the
\* text that was loaded
C18_Witness ==
    /\ mounted
    /\ edits = 2
    /\ Len(notes) = 1
    /\ notes[1].id = SeedNote.id
    /\ notes[1].pinned
    /\ notes[1].content = <<Quote, "f">>
    /\ loaded.val = notes
    /\ burstSaves = 1
    /\ lastSaveArg = <<notes>>
    /\ slot = loaded.slot

EmittedTags ==
    {H1Open, H1Close, H2Open, H2Close, H3Open, H3Close, BrTag, POpen, PClose,
     StrongOpen, StrongClose, EmOpen, EmClose, CodeOpen, CodeClose}

Entities == {AmpEntity, LtEntity, GtEntity}

\* some member of ts stands in s from position i on
StartsAt(s, i, ts) ==
    \E t \in ts : i + Len(t) - 1 <= Len(s) /\ SubSeq(s, i, i + Len(t) - 1) = t

\* some member of ts stands in s up to position i
EndsAt(s, i, ts) ==
    \E t \in ts : i - Len(t) + 1 >= 1 /\ SubSeq(s, i - Len(t) + 1, i) = t

\* C19 (markup escaping): in the HTML of a rendered content every "<" opens
\* and every ">" closes one of the tags the renderer emits (h1, h2, h3, br,
\* p, strong, em, code), and every "&" starts one of the entities &amp;,
\* &lt;, &gt;: no "<", ">" or "&" of the content comes through as it is,
\* whether the line is a heading or has inline markup; the HTML of
\* "<script>" does not contain "<script>".
C19_MarkupEscaped ==
    preview.on =>
        LET out == preview.html
            text == activeNote(notes, activeId).content
        IN  /\ out = renderBasicMarkdown(text)
            /\ \A i \in 1..Len(out) :
                  /\ (out[i] = "<" => StartsAt(out, i, EmittedTags))
                  /\ (out[i] = ">" => EndsAt(out, i, EmittedTags))
                  /\ (out[i] = "&" => StartsAt(out, i, Entities))
            /\ (text = ScriptText => ~includes(out, ScriptText))

\* the preview of the content "<script>" is <p>&lt;script&gt;</p>
C19_Witness ==
    /\ preview.on
    /\ notes[1].content = ScriptText
    /\ preview.html = POpen \o LtEntity \o <<"s", "c", "r", "i", "p", "t">>
                        \o GtEntity \o PClose

\* C20 (active pointer never dangling), as claimed: in every reachable state
\* activeId is Null or the id of a note of the Collection.
C20_ActiveNeverDangling == activeId = Null \/ activeId \in IdsOf(notes)

====
